---------------------------- MODULE Spec2Model ----------------------------
(***************************************************************************)
(* A model of mpqp/tools/circuit.py (random_circuit,                       *)
(* compute_expected_matrix, replace_custom_gate) and of                    *)
(* mpqp/tools/display.py (state_vector_ket_shape, with_sign).              *)
(*                                                                         *)
(* The four groups of functions do not interact.  Each has its own         *)
(* variables and its own specification (SpecRandom, SpecMatrix,            *)
(* SpecCustom, SpecDisplay); a specification leaves the variables of the   *)
(* other groups at their idle values.                                      *)
(***************************************************************************)
EXTENDS Integers, Sequences, FiniteSets, TLC

VARIABLES
    \* ---- random_circuit ----
    pc,             \* position in random_circuit: "call", "loop", "returned", "raised"
    gate_classes,   \* argument: list of gate classes
    nb_qubits,      \* argument
    nb_gates,       \* argument: None or a number
    count,          \* nb_gates as the loop reads it, after lines 101-102
    seed,           \* argument: None or an integer
    rng,            \* state of the generator rng (None before line 91)
    instructions,   \* qcircuit.instructions
    done,           \* iterations of the loop of line 114 that were started
    err,            \* exception that left the function, "none" if none
    call,           \* 1 for the first call, 2 for the call repeated with the same arguments
    first,          \* what the first call ended with (for the second call to compare)
    \* ---- compute_expected_matrix ----
    cem_pc,         \* position in compute_expected_matrix: "call", "loop", "returned", "raised"
    qcircuit,       \* argument: [nb_qubits, instructions]
    gates,          \* the list of lines 171-175
    todo,           \* what the loop of line 180 has still to visit, in its order
    result_matrix,  \* local of line 178
    cem_err,        \* exception that left the function, "none" if none
    cem_ret,        \* the matrix returned, None if none
    \* ---- replace_custom_gate ----
    rcg_pc,         \* position in replace_custom_gate: "call", "except", "got", "returned", "raised"
    custom_unitary, \* custom_unitary.operation.params[0], the matrix of the unitary
    rcg_nb_qubits,  \* argument nb_qubits
    transpile_calls,\* the calls made to transpile: the matrix given and what came back
    caught,         \* the exception e of line 226, None outside the handler
    transpiled,     \* local of lines 225 and 233, None while unset
    rcg_err,        \* exception that left the function, None if none
    rcg_ret,        \* the pair returned, None if none
    \* ---- display.py ----
    d_pc,           \* "call", "returned", "raised" ("idle" when display.py is not used)
    d_op,           \* the function called: "state_vector_ket_shape" or "with_sign"
    sv,             \* argument of state_vector_ket_shape: [shape, data]
    val,            \* argument of with_sign: <<re, im>> in ten-thousandths
    d_out,          \* the string returned (a sequence of characters), None if none
    d_err           \* exception that left the function, "none" if none

rcVars ==
    <<pc, gate_classes, nb_qubits, nb_gates, count, seed, rng, instructions, done, err,
      call, first>>

cemVars == <<cem_pc, qcircuit, gates, todo, result_matrix, cem_err, cem_ret>>

rcgVars ==
    <<rcg_pc, custom_unitary, rcg_nb_qubits, transpile_calls, caught, transpiled, rcg_err,
      rcg_ret>>

dVars == <<d_pc, d_op, sv, val, d_out, d_err>>

vars == <<rcVars, cemVars, rcgVars, dVars>>

-----------------------------------------------------------------------------
(* Bounds of the model.                                                    *)

MaxClasses == 2     \* longest gate_classes list
MaxQubits == 3      \* largest nb_qubits
MaxGates == 2       \* largest explicit nb_gates
MaxSeed == 1        \* largest integer seed
MaxWidth == 2       \* largest qcircuit.nb_qubits given to compute_expected_matrix
MaxInstr == 3       \* longest qcircuit.instructions given to compute_expected_matrix
MaxMatrix == 1      \* largest label of a custom unitary's matrix
MaxPhase == 2       \* largest global phase transpile reports (in quarter turns)
MaxLen == 4         \* longest state vector given to state_vector_ket_shape

-----------------------------------------------------------------------------
(* Small helpers on sequences and sets.                                    *)

\* Optional[T]: None is the empty sequence, a value x is <<x>>.
None == <<>>

Some(x) == <<x>>

OptionalOf(S) == {None} \cup {Some(x) : x \in S}

Range(s) == {s[k] : k \in DOMAIN s}

\* list(S) for a set of small non-negative integers: CPython iterates it in
\* ascending order.
RECURSIVE SortedList(_)
SortedList(S) ==
    IF S = {} THEN <<>>
    ELSE LET m == CHOOSE x \in S : \A y \in S : x <= y
         IN <<m>> \o SortedList(S \ {m})

SeqsUpTo(S, n) == UNION {[1..k -> S] : k \in 1..n}

-----------------------------------------------------------------------------
(* The gate classes random_circuit dispatches on.  One class stands for    *)
(* each way through the dispatch of lines 117-149: H for the unparametrized*)
(* single-qubit gates, Rx for the rotation gates Rx, Ry, Rz and P (the     *)
(* assertion of line 132), CNOT for the unparametrized two-qubit gates.    *)

GateClasses == {"H", "U", "Rk", "Rx", "CNOT", "CRk", "TOF"}

IsSingleQubitGate(g) == g \in {"H", "X", "S", "U", "Rk", "Rx"}

IsParametrizedGate(g) == g \in {"U", "Rk", "Rx", "CRk"}

IsRotationGate(g) == g \in {"Rk", "Rx", "CRk"}

\* The names the module circuit.py binds at import (lines 1-23).  A name
\* used in a function body and bound neither here nor in builtins raises
\* NameError when the line that uses it runs.
ModuleGlobals ==
    {"Optional", "Union", "np", "QuantumCircuit", "transpile",
     "CircuitInstruction", "QCircuit", "SingleQubitGate", "NATIVE_GATES",
     "TOF", "CRk", "NativeGate", "P", "Rk", "RotationGate", "Rx", "Ry", "Rz",
     "U", "ParametrizedGate", "closest_unitary"}

NameIsBound(name) == name \in ModuleGlobals

-----------------------------------------------------------------------------
(* numpy's Generator, as far as random_circuit uses it: a deterministic    *)
(* stream fixed by the seed.  The state is a number in 0..15, a draw       *)
(* advances it and yields it as a sixteenth in [0, 1).                     *)

RngStates == 0..15

Units == 0..15

\* np.random.default_rng(seed) for an integer seed.
default_rng(s) == s % 16

\* One draw: the generator's next state, which is also the value drawn.
Advance(g) == (5 * g + 3) % 16

\* rng.choice(list) given the draw u.
Choice(u, list) == list[((u * Len(list)) \div 16) + 1]

\* rng.integers(low, high) given the draw u: low <= result < high.
Integers(u, low, high) == low + ((u * (high - low)) \div 16)

\* rng.uniform(0, 2 * np.pi) given the draw u, in sixteenths of a turn.
Uniform(u) == u

\* int(rng.uniform(0, 2 * np.pi)) given the draw u: floor(2*pi*u/16).
IntUniform(u) == (u * 6283) \div 16000

-----------------------------------------------------------------------------
(* random_circuit                                                          *)

Gate(kind, controls, targets, params) ==
    [kind |-> kind, controls |-> controls, targets |-> targets, params |-> params]

\* The check with a slip: only the first class of the list is looked at.
TooFewQubitsFirstOnly(classes, n) ==
    /\ ~IsSingleQubitGate(classes[1])
    /\ ((classes[1] = "TOF" /\ n <= 2) \/ n <= 1)

\* Lines 107-111: the gate set needs more qubits than there are.
TooFewQubits(classes, n) ==
    \E k \in DOMAIN classes :
        /\ ~IsSingleQubitGate(classes[k])
        /\ ((classes[k] = "TOF" /\ n <= 2) \/ n <= 1)

\* The candidates with a slip: the target is not taken out.
ControlCandidatesWithTarget(qubits, target) == SortedList(Range(qubits))

\* Line 140: the qubits a first control may be drawn from.
ControlCandidates(qubits, target) == SortedList(Range(qubits) \ {target})

\* Line 146: the qubits TOF's second control may be drawn from.
Control2Candidates(qubits, target, control) ==
    SortedList(Range(qubits) \ {target, control})

\* The outcome of one pass of the loop body.
Pass(g, add, e) == [rng |-> g, add |-> add, err |-> e]

\* Lines 115-149: one pass of the loop body from generator state g0; r is
\* what the module-level random.uniform would give on line 133.
LoopBody(g0, classes, n, r) ==
    LET qubits == [k \in 1..n |-> k - 1]
        g1 == Advance(g0)
        gate_class == Choice(g1, classes)
        g2 == Advance(g1)
        target == Choice(g2, qubits)
        g3 == Advance(g2)
        g4 == Advance(g3)
        g5 == Advance(g4)
    IN  IF IsSingleQubitGate(gate_class) THEN
            IF IsParametrizedGate(gate_class) THEN
                IF gate_class = "U" THEN
                    Pass(g5, <<Gate("U", <<>>, <<target>>,
                                    <<Uniform(g3), Uniform(g4), Uniform(g5)>>)>>, "none")
                ELSE IF gate_class = "Rk" THEN
                    Pass(g3, <<Gate("Rk", <<>>, <<target>>, <<Integers(g3, 1, 10)>>)>>, "none")
                ELSE IF IsRotationGate(gate_class) THEN
                    IF ~NameIsBound("TYPE_CHECKING") THEN Pass(g2, <<>>, "NameError")
                    ELSE IF ~NameIsBound("random") THEN Pass(g2, <<>>, "NameError")
                    ELSE Pass(g2, <<Gate(gate_class, <<>>, <<target>>, <<Uniform(r)>>)>>, "none")
                ELSE
                    Pass(g3, <<Gate(gate_class, <<>>, <<target>>, <<IntUniform(g3)>>)>>,
                         "ValueError")
            ELSE
                Pass(g2, <<Gate(gate_class, <<>>, <<target>>, <<>>)>>, "none")
        ELSE IF ControlCandidates(qubits, target) = <<>> THEN
            \* rng.choice of an empty list raises ValueError
            Pass(g2, <<>>, "ValueError")
        ELSE
            LET control == Choice(g3, ControlCandidates(qubits, target))
            IN  IF IsParametrizedGate(gate_class) THEN
                    IF ~NameIsBound("TYPE_CHECKING") THEN Pass(g3, <<>>, "NameError")
                    ELSE Pass(g4, <<Gate(gate_class, <<control>>, <<target>>,
                                         <<Integers(g4, 0, 10)>>)>>, "none")
                ELSE IF gate_class = "TOF" /\ Control2Candidates(qubits, target, control) = <<>> THEN
                    Pass(g3, <<>>, "ValueError")
                ELSE IF gate_class = "TOF" THEN
                    LET control2 == Choice(g4, Control2Candidates(qubits, target, control))
                    IN  Pass(g4, <<Gate("TOF", <<control, control2>>, <<target>>, <<>>)>>, "none")
                ELSE
                    Pass(g3, <<Gate(gate_class, <<control>>, <<target>>, <<>>)>>, "none")

\* Whether the pass from g0 reaches line 133, which reads the module-level random.
ReadsGlobalRandom(g0, classes) ==
    LET gate_class == Choice(Advance(g0), classes)
    IN  /\ gate_class = "Rx"
        /\ NameIsBound("TYPE_CHECKING")
        /\ NameIsBound("random")

\* random_circuit is not running.
RcIdle ==
    /\ pc = "idle"
    /\ gate_classes = <<>>
    /\ nb_qubits = 0
    /\ nb_gates = None
    /\ count = 0
    /\ seed = None
    /\ rng = None
    /\ instructions = <<>>
    /\ done = 0
    /\ err = "none"
    /\ call = 0
    /\ first = None

\* compute_expected_matrix is not running.
CemIdle ==
    /\ cem_pc = "idle"
    /\ qcircuit = None
    /\ gates = <<>>
    /\ todo = <<>>
    /\ result_matrix = <<>>
    /\ cem_err = "none"
    /\ cem_ret = None

\* replace_custom_gate is not running.
RcgIdle ==
    /\ rcg_pc = "idle"
    /\ custom_unitary = None
    /\ rcg_nb_qubits = 0
    /\ transpile_calls = <<>>
    /\ caught = None
    /\ transpiled = None
    /\ rcg_err = None
    /\ rcg_ret = None

\* display.py is not running.
DisplayIdle ==
    /\ d_pc = "idle"
    /\ d_op = "none"
    /\ sv = None
    /\ val = None
    /\ d_out = None
    /\ d_err = "none"

InitRandom ==
    /\ CemIdle
    /\ RcgIdle
    /\ DisplayIdle
    /\ pc = "call"
    /\ gate_classes \in SeqsUpTo(GateClasses, MaxClasses)
    /\ nb_qubits \in 1..MaxQubits
    /\ nb_gates \in OptionalOf(0..MaxGates)
    /\ seed \in OptionalOf(0..MaxSeed)
    /\ count = 0
    /\ rng = None
    /\ instructions = <<>>
    /\ done = 0
    /\ err = "none"
    /\ call = 1
    /\ first = None

\* Lines 91-112: the generator, the default gate count, the validation.
Enter ==
    /\ pc = "call"
    /\ \E fresh \in RngStates :
        LET g0 == IF seed = None THEN fresh ELSE default_rng(seed[1])
            g1 == IF nb_gates = None THEN Advance(g0) ELSE g0
            n == IF nb_gates = None THEN Integers(g1, 5, 10) ELSE nb_gates[1]
        IN  /\ rng' = Some(g1)
            /\ count' = n
            /\ IF TooFewQubits(gate_classes, nb_qubits)
               THEN pc' = "raised" /\ err' = "ValueError"
               ELSE pc' = "loop" /\ err' = "none"
    /\ instructions' = <<>>
    /\ done' = 0
    /\ UNCHANGED <<gate_classes, nb_qubits, nb_gates, seed, call, first>>
    /\ UNCHANGED <<cemVars, rcgVars, dVars>>

\* Lines 114-149: one pass of the loop.
Iterate ==
    /\ pc = "loop"
    /\ done < count
    /\ \E r \in (IF ReadsGlobalRandom(rng[1], gate_classes) THEN Units ELSE {0}) :
        LET p == LoopBody(rng[1], gate_classes, nb_qubits, r)
        IN  /\ rng' = Some(p.rng)
            /\ instructions' = instructions \o p.add
            /\ err' = p.err
            /\ pc' = IF p.err = "none" THEN "loop" ELSE "raised"
    /\ done' = done + 1
    /\ UNCHANGED <<gate_classes, nb_qubits, nb_gates, count, seed, call, first>>
    /\ UNCHANGED <<cemVars, rcgVars, dVars>>

\* Line 150.
Return ==
    /\ pc = "loop"
    /\ done = count
    /\ pc' = "returned"
    /\ UNCHANGED <<gate_classes, nb_qubits, nb_gates, count, seed, rng, instructions, done,
                   err, call, first>>
    /\ UNCHANGED <<cemVars, rcgVars, dVars>>

\* What a finished call leaves its caller with.
Outcome == [err |-> err, instructions |-> IF err = "none" THEN instructions ELSE <<>>]

\* The caller calls random_circuit once more with the same arguments, the
\* same integer seed among them.
CallAgain ==
    /\ pc \in {"returned", "raised"}
    /\ call = 1
    /\ seed # None
    /\ first' = Some(Outcome)
    /\ call' = 2
    /\ pc' = "call"
    /\ count' = 0
    /\ rng' = None
    /\ instructions' = <<>>
    /\ done' = 0
    /\ err' = "none"
    /\ UNCHANGED <<gate_classes, nb_qubits, nb_gates, seed>>
    /\ UNCHANGED <<cemVars, rcgVars, dVars>>

NextRandom == Enter \/ Iterate \/ Return \/ CallAgain

SpecRandom == InitRandom /\ [][NextRandom]_vars

-----------------------------------------------------------------------------
(* Claims about random_circuit, checked under SpecRandom.                  *)

Finished == pc \in {"returned", "raised"}

MultiQubitClasses == {"CNOT", "CRk", "TOF"}

\* The gate set asks for more qubits than nb_qubits, as the claims word it.
NeedsMoreQubits ==
    \/ Range(gate_classes) \cap MultiQubitClasses # {} /\ nb_qubits <= 1
    \/ "TOF" \in Range(gate_classes) /\ nb_qubits <= 2

QubitsOf(g) == g.controls \o g.targets

\* C1: for every valid (gate set, qubit count) pair and every requested
\* nb_gates >= 0, random_circuit does not raise and returns a circuit of
\* exactly nb_gates gates, whichever native gate classes are in the set.
C1_ReturnsRequestedGates ==
    (Finished /\ ~NeedsMoreQubits /\ nb_gates # None)
        => (pc = "returned" /\ err = "none" /\ Len(instructions) = nb_gates[1])

\* C2: at every point of the sampling loop, every gate of the circuit has its
\* qubit indices in 0..nb_qubits-1 and its controls and target pairwise
\* distinct.
C2_QubitsInBoundsAndDisjoint ==
    \A k \in DOMAIN instructions :
        LET q == QubitsOf(instructions[k])
        IN  /\ \A a \in DOMAIN q : q[a] \in 0..(nb_qubits - 1)
            /\ \A a, b \in DOMAIN q : a # b => q[a] # q[b]
            /\ Len(instructions[k].targets) = 1
            /\ Len(instructions[k].controls) =
                   IF instructions[k].kind = "TOF" THEN 2
                   ELSE IF IsSingleQubitGate(instructions[k].kind) THEN 0 ELSE 1

\* C2's case: a second pass has added a gate after a TOF with its two controls.
C2_Witness ==
    /\ Len(instructions) >= 2
    /\ instructions[1].kind = "TOF"
    /\ instructions[2].kind = "CNOT"
    /\ pc = "loop"

\* C3: when the gate set needs more qubits than nb_qubits, the call raises
\* ValueError before any pass of the loop: nothing is drawn for a gate and
\* nothing is added, wherever the class sits in the list and whatever nb_gates.
C3_RaisesBeforeGeneration ==
    (NeedsMoreQubits /\ pc # "call")
        => (pc = "raised" /\ err = "ValueError" /\ done = 0 /\ instructions = <<>>)

\* C3's case: TOF is last in the list, two qubits, zero gates asked for.
C3_Witness ==
    /\ pc = "raised"
    /\ err = "ValueError"
    /\ Len(gate_classes) = 2
    /\ gate_classes[1] = "H"
    /\ gate_classes[2] = "TOF"
    /\ nb_qubits = 2
    /\ nb_gates = Some(0)

\* C4: two calls with the same integer seed and the same gate_classes,
\* nb_qubits and nb_gates produce the same sequence of gates, with the same
\* qubits and parameters.
C4_SameSeedSameGates ==
    (Finished /\ call = 2 /\ ~NeedsMoreQubits)
        => (/\ first[1].err = "none"
            /\ err = "none"
            /\ instructions = first[1].instructions)


-----------------------------------------------------------------------------
(* Complex matrices.  A complex number is <<re, im>>; a matrix is the       *)
(* sequence of its rows.  The gates modelled have Gaussian-integer entries, *)
(* on which numpy's float arithmetic is exact.                              *)

CAdd(a, b) == <<a[1] + b[1], a[2] + b[2]>>

CMul(a, b) == <<a[1] * b[1] - a[2] * b[2], a[1] * b[2] + a[2] * b[1]>>

RECURSIVE Pow2(_)
Pow2(n) == IF n = 0 THEN 1 ELSE 2 * Pow2(n - 1)

\* The sequence <<f(1), ..., f(n)>>.
RECURSIVE Tabulate(_, _)
Tabulate(f(_), n) == IF n = 0 THEN <<>> ELSE Append(Tabulate(f, n - 1), f(n))

\* The d x d matrix of the entries entry(r, c).
Matrix(d, entry(_, _)) ==
    LET row(r) == LET at(c) == entry(r, c) IN Tabulate(at, d)
    IN  Tabulate(row, d)

\* np.eye(d, dtype=complex)
Eye(d) ==
    LET entry(r, c) == IF r = c THEN <<1, 0>> ELSE <<0, 0>>
    IN  Matrix(d, entry)

RECURSIVE CSum(_, _, _)
CSum(f(_), lo, hi) == IF lo > hi THEN <<0, 0>> ELSE CAdd(f(lo), CSum(f, lo + 1, hi))

\* np.dot(A, B) for square matrices of one size
Dot(A, B) ==
    LET entry(r, c) == LET term(k) == CMul(A[r][k], B[k][c]) IN CSum(term, 1, Len(A))
    IN  Matrix(Len(A), entry)

\* np.kron(A, B) for square matrices
Kron(A, B) ==
    LET b == Len(B)
        entry(r, c) == CMul(A[((r - 1) \div b) + 1][((c - 1) \div b) + 1],
                            B[((r - 1) % b) + 1][((c - 1) % b) + 1])
    IN  Matrix(Len(A) * b, entry)

\* gate.to_matrix() of the single-qubit gates X and S
to_matrix(gate) ==
    IF gate.kind = "X" THEN << << <<0, 0>>, <<1, 0>> >>, << <<1, 0>>, <<0, 0>> >> >>
    ELSE << << <<1, 0>>, <<0, 0>> >>, << <<0, 0>>, <<0, 1>> >> >>

\* sympy's N, then astype(complex), on one entry: a number keeps its value.
N(z) == z

-----------------------------------------------------------------------------
(* compute_expected_matrix                                                 *)

Barrier == [kind |-> "Barrier", controls |-> <<>>, targets |-> <<>>, params |-> <<>>]

\* The instructions a circuit of n qubits may hold here: X and S on each
\* qubit, a CNOT when there are two qubits, and a barrier (not a gate).
InstructionsOn(n) ==
    {Gate(k, <<>>, <<t>>, <<>>) : k \in {"X", "S"}, t \in 0..(n - 1)}
        \cup (IF n >= 2 THEN {Gate("CNOT", <<0>>, <<1>>, <<>>)} ELSE {})
        \cup {Barrier}

\* isinstance(instruction, Gate)
IsGate(instruction) == instruction.kind # "Barrier"

\* Lines 171-175.
GatesOf(instrs) == SelectSeq(instrs, IsGate)

\* reversed(gates), with a slip: the list is walked front to back.
NotReversed(list) == list

\* reversed(gates) of line 180.
Reversed(list) == [k \in 1..Len(list) |-> list[Len(list) + 1 - k]]

\* The test of line 181, with a slip: any gate passes.
UnsupportedNever(gate) == ~IsGate(gate)

\* Line 181.
Unsupported(gate) == ~IsSingleQubitGate(gate.kind)

\* Lines 186-191: the gate's matrix at the width of the circuit.
KronExpand(gate, n) ==
    LET index == gate.targets[1]
    IN  Kron(Eye(Pow2(index)), Kron(to_matrix(gate), Eye(Pow2(n - index - 1))))

\* Line 195.
AsComplex(M) ==
    LET entry(r, c) == N(M[r][c])
    IN  Matrix(Len(M), entry)

InitMatrix ==
    /\ RcIdle
    /\ RcgIdle
    /\ DisplayIdle
    /\ cem_pc = "call"
    /\ \E n \in 1..MaxWidth :
        \E instrs \in UNION {[1..k -> InstructionsOn(n)] : k \in 0..MaxInstr} :
            qcircuit = [nb_qubits |-> n, instructions |-> instrs]
    /\ gates = <<>>
    /\ todo = <<>>
    /\ result_matrix = <<>>
    /\ cem_err = "none"
    /\ cem_ret = None

\* Lines 171-178.
CemEnter ==
    /\ cem_pc = "call"
    /\ gates' = GatesOf(qcircuit.instructions)
    /\ todo' = Reversed(GatesOf(qcircuit.instructions))
    /\ result_matrix' = Eye(Pow2(qcircuit.nb_qubits))
    /\ cem_pc' = "loop"
    /\ UNCHANGED <<qcircuit, cem_err, cem_ret>>
    /\ UNCHANGED <<rcVars, rcgVars, dVars>>

\* Lines 180-193: one pass of the loop.
CemIterate ==
    /\ cem_pc = "loop"
    /\ todo # <<>>
    /\ LET gate == Head(todo)
       IN  IF Unsupported(gate)
           THEN /\ cem_pc' = "raised"
                /\ cem_err' = "ValueError"
                /\ UNCHANGED result_matrix
           ELSE /\ result_matrix' = Dot(result_matrix, KronExpand(gate, qcircuit.nb_qubits))
                /\ UNCHANGED <<cem_pc, cem_err>>
    /\ todo' = Tail(todo)
    /\ UNCHANGED <<qcircuit, gates, cem_ret>>
    /\ UNCHANGED <<rcVars, rcgVars, dVars>>

\* Line 195.
CemReturn ==
    /\ cem_pc = "loop"
    /\ todo = <<>>
    /\ cem_ret' = Some(AsComplex(result_matrix))
    /\ cem_pc' = "returned"
    /\ UNCHANGED <<qcircuit, gates, todo, result_matrix, cem_err>>
    /\ UNCHANGED <<rcVars, rcgVars, dVars>>

NextMatrix == CemEnter \/ CemIterate \/ CemReturn

SpecMatrix == InitMatrix /\ [][NextMatrix]_vars


-----------------------------------------------------------------------------
(* Claims about compute_expected_matrix, checked under SpecMatrix.         *)

\* Bit number t (0 is the most significant of n) of the index r.
BitAt(r, t, n) == (r \div Pow2(n - t - 1)) % 2

\* E(g) = I_(2^t) (x) M(g) (x) I_(2^(n-t-1)), entry by entry: M(g) acts on bit
\* t of the row and column indices, the other bits must agree.
Expanded(g, n) ==
    LET t == g.targets[1]
        M == to_matrix(g)
        entry(r, c) ==
            IF \A b \in (0..(n - 1)) \ {t} : BitAt(r - 1, b, n) = BitAt(c - 1, b, n)
            THEN M[BitAt(r - 1, t, n) + 1][BitAt(c - 1, t, n) + 1]
            ELSE <<0, 0>>
    IN  Matrix(Pow2(n), entry)

\* E(g_k) * ... * E(g_1) over the gates g_1..g_k of instrs, in instruction order.
RECURSIVE ReverseOrderProduct(_, _)
ReverseOrderProduct(instrs, n) ==
    IF instrs = <<>> THEN Eye(Pow2(n))
    ELSE LET last == instrs[Len(instrs)]
             front == SubSeq(instrs, 1, Len(instrs) - 1)
         IN  IF IsGate(last)
             THEN Dot(Expanded(last, n), ReverseOrderProduct(front, n))
             ELSE ReverseOrderProduct(front, n)

OnlySingleQubitGates ==
    \A k \in DOMAIN qcircuit.instructions :
        IsGate(qcircuit.instructions[k]) => IsSingleQubitGate(qcircuit.instructions[k].kind)

\* C5: for a circuit of n qubits whose gates g_1..g_k are all single-qubit
\* gates, compute_expected_matrix returns the 2^n x 2^n matrix
\* E(g_k) * ... * E(g_1); the identity for no gates; instructions that are not
\* gates do not contribute.
C5_ReverseOrderKroneckerProduct ==
    (cem_pc = "returned" /\ OnlySingleQubitGates)
        => /\ cem_ret = Some(ReverseOrderProduct(qcircuit.instructions, qcircuit.nb_qubits))
           /\ Len(cem_ret[1]) = Pow2(qcircuit.nb_qubits)
           /\ \A r \in DOMAIN cem_ret[1] : Len(cem_ret[1][r]) = Pow2(qcircuit.nb_qubits)

\* C5's case: X then S on one qubit of two (they do not commute), a barrier
\* between them.
C5_Witness ==
    /\ cem_pc = "returned"
    /\ qcircuit.nb_qubits = 2
    /\ qcircuit.instructions =
           <<Gate("X", <<>>, <<1>>, <<>>), Barrier, Gate("S", <<>>, <<1>>, <<>>)>>
    /\ cem_ret # None

\* C6: compute_expected_matrix raises ValueError and returns no matrix exactly
\* when the circuit holds a gate that is not a single-qubit gate, wherever
\* that gate stands among the instructions.
C6_RaisesIffUnsupportedGate ==
    (cem_pc \in {"returned", "raised"})
        => IF OnlySingleQubitGates
           THEN cem_pc = "returned" /\ cem_err = "none" /\ cem_ret # None
           ELSE cem_pc = "raised" /\ cem_err = "ValueError" /\ cem_ret = None

\* C6's case: the two-qubit gate stands between two single-qubit gates.
C6_Witness ==
    /\ cem_pc = "raised"
    /\ cem_err = "ValueError"
    /\ Len(qcircuit.instructions) = 3
    /\ qcircuit.instructions[1].kind = "X"
    /\ qcircuit.instructions[2].kind = "CNOT"
    /\ qcircuit.instructions[3].kind = "S"


-----------------------------------------------------------------------------
(* replace_custom_gate                                                     *)

\* The matrix of a custom unitary: a label, and whether it is unitary to the
\* precision the decomposition needs.
Matrices == [label : 0..MaxMatrix, unitary : BOOLEAN]

\* mpqp.tools.maths.closest_unitary: the unitary matrix nearest to m.
closest_unitary(m) == [label |-> m.label, unitary |-> TRUE]

\* What a call of transpile may raise: an exception class and whether its
\* message names TwoQubitWeylDecomposition.
Exceptions == [cls : {"QiskitError", "Exception"}, weyl : BOOLEAN]

\* What a call of transpile on the matrix m may come back with: a transpiled
\* circuit with its global phase, or an exception.
TranspileOutcomes(m) ==
    [ok : {TRUE}, circuit : [of : {m}, global_phase : 0..MaxPhase], exc : {None}]
        \cup [ok : {FALSE}, circuit : {None}, exc : {Some(e) : e \in Exceptions}]

\* Line 226: except QiskitError.
IsQiskitError(e) == e.cls = "QiskitError"

\* The test of line 229 with a slip: every QiskitError counts as the known one.
AnyErrorIsKnown(e) == TRUE

\* Line 229: "TwoQubitWeylDecomposition" in str(e).
IsKnownError(e) == e.weyl

InitCustom ==
    /\ RcIdle
    /\ CemIdle
    /\ DisplayIdle
    /\ rcg_pc = "call"
    /\ custom_unitary \in {Some(m) : m \in Matrices}
    /\ rcg_nb_qubits \in 1..MaxQubits
    /\ transpile_calls = <<>>
    /\ caught = None
    /\ transpiled = None
    /\ rcg_err = None
    /\ rcg_ret = None

\* Lines 222-226: the circuit holding the unitary, the first call of transpile.
RcgTranspile ==
    /\ rcg_pc = "call"
    /\ \E out \in TranspileOutcomes(custom_unitary[1]) :
        /\ transpile_calls' = Append(transpile_calls, [matrix |-> custom_unitary[1], out |-> out])
        /\ IF out.ok
           THEN /\ transpiled' = Some(out.circuit)
                /\ rcg_pc' = "got"
                /\ UNCHANGED <<caught, rcg_err>>
           ELSE IF IsQiskitError(out.exc[1])
           THEN /\ caught' = out.exc
                /\ rcg_pc' = "except"
                /\ UNCHANGED <<transpiled, rcg_err>>
           ELSE /\ rcg_err' = out.exc
                /\ rcg_pc' = "raised"
                /\ UNCHANGED <<transpiled, caught>>
    /\ UNCHANGED <<custom_unitary, rcg_nb_qubits, rcg_ret>>
    /\ UNCHANGED <<rcVars, cemVars, dVars>>

\* Lines 229-235: the handler: the substitution and the second call of
\* transpile for the known error, the exception raised again for any other.
RcgExcept ==
    /\ rcg_pc = "except"
    /\ IF IsKnownError(caught[1])
       THEN LET m == closest_unitary(custom_unitary[1])
            IN  /\ custom_unitary' = Some(m)
                /\ \E out \in TranspileOutcomes(m) :
                    /\ transpile_calls' = Append(transpile_calls, [matrix |-> m, out |-> out])
                    /\ IF out.ok
                       THEN /\ transpiled' = Some(out.circuit)
                            /\ rcg_pc' = "got"
                            /\ UNCHANGED rcg_err
                       ELSE /\ rcg_err' = out.exc
                            /\ rcg_pc' = "raised"
                            /\ UNCHANGED transpiled
       ELSE /\ rcg_err' = caught
            /\ rcg_pc' = "raised"
            /\ UNCHANGED <<custom_unitary, transpile_calls, transpiled>>
    /\ caught' = None
    /\ UNCHANGED <<rcg_nb_qubits, rcg_ret>>
    /\ UNCHANGED <<rcVars, cemVars, dVars>>

\* Line 236.
RcgReturn ==
    /\ rcg_pc = "got"
    /\ rcg_ret' = Some(<<transpiled[1], transpiled[1].global_phase>>)
    /\ rcg_pc' = "returned"
    /\ UNCHANGED <<custom_unitary, rcg_nb_qubits, transpile_calls, caught, transpiled, rcg_err>>
    /\ UNCHANGED <<rcVars, cemVars, dVars>>

NextCustom == RcgTranspile \/ RcgExcept \/ RcgReturn

SpecCustom == InitCustom /\ [][NextCustom]_vars

-----------------------------------------------------------------------------
(* Claims about replace_custom_gate, checked under SpecCustom.             *)

KnownError == [cls |-> "QiskitError", weyl |-> TRUE]

FirstFailedWith(e) ==
    /\ Len(transpile_calls) >= 1
    /\ ~transpile_calls[1].out.ok
    /\ transpile_calls[1].out.exc = Some(e)

\* C7: transpile is called at most twice; the second call happens only after
\* the first failed with the known two-qubit decomposition error and the
\* matrix was replaced by its closest unitary; a first failure of any other
\* kind propagates with no substitution and no retry; a failure of the retry
\* propagates; on success the phase returned is the global phase of the
\* circuit returned.
C7_RetryOnceOnKnownError ==
    /\ Len(transpile_calls) <= 2
    /\ Len(transpile_calls) = 2
        => /\ FirstFailedWith(KnownError)
           /\ transpile_calls[2].matrix = closest_unitary(transpile_calls[1].matrix)
           /\ custom_unitary = Some(transpile_calls[2].matrix)
    /\ \A e \in Exceptions \ {KnownError} :
        (FirstFailedWith(e) /\ rcg_pc # "except")
            => /\ rcg_pc = "raised"
               /\ rcg_err = Some(e)
               /\ Len(transpile_calls) = 1
               /\ custom_unitary = Some(transpile_calls[1].matrix)
    /\ (Len(transpile_calls) = 2 /\ ~transpile_calls[2].out.ok)
        => (rcg_pc = "raised" /\ rcg_err = transpile_calls[2].out.exc)
    /\ rcg_pc = "returned"
        => /\ transpile_calls[Len(transpile_calls)].out.ok
           /\ rcg_ret[1][1] = transpile_calls[Len(transpile_calls)].out.circuit
           /\ rcg_ret[1][2] = rcg_ret[1][1].global_phase

\* C7's case: the first call failed with the known error on a matrix that is
\* not unitary, the retry on its closest unitary succeeded, and the function
\* returned the retry's circuit and phase.
C7_Witness ==
    /\ rcg_pc = "returned"
    /\ Len(transpile_calls) = 2
    /\ FirstFailedWith(KnownError)
    /\ ~transpile_calls[1].matrix.unitary
    /\ transpile_calls[2].matrix.unitary
    /\ rcg_ret[1][2] = 1


-----------------------------------------------------------------------------
(* display.py.  A string is the sequence of its characters.  A number given *)
(* to with_sign is <<re, im>> in ten-thousandths; rounded to three decimals *)
(* its parts are counted in thousandths.                                    *)

Abs(x) == IF x < 0 THEN 0 - x ELSE x

DigitChar(d) == <<"0", "1", "2", "3", "4", "5", "6", "7", "8", "9">>[d + 1]

\* str of a non-negative int
RECURSIVE Digits(_)
Digits(n) == IF n < 10 THEN <<DigitChar(n)>> ELSE Digits(n \div 10) \o <<DigitChar(n % 10)>>

\* str of an int
StrInt(n) == IF n < 0 THEN <<"-">> \o Digits(0 - n) ELSE Digits(n)

\* The decimals of f thousandths (0 < f < 1000), trailing zeros dropped.
Decimals(f) ==
    IF f % 100 = 0 THEN <<DigitChar(f \div 100)>>
    ELSE IF f % 10 = 0 THEN <<DigitChar(f \div 100), DigitChar((f \div 10) % 10)>>
    ELSE <<DigitChar(f \div 100), DigitChar((f \div 10) % 10), DigitChar(f % 10)>>

\* str of a float of k thousandths that is not a whole number: the shortest
\* decimal that reads back as the same float.
StrFloat(k) ==
    (IF k < 0 THEN <<"-">> ELSE <<>>)
        \o Digits(Abs(k) \div 1000) \o <<".">> \o Decimals(Abs(k) % 1000)

\* One part of a complex number as str(complex) writes it: a whole number
\* without decimal point.
StrPart(k) == IF k % 1000 = 0 THEN StrInt(k \div 1000) ELSE StrFloat(k)

\* str of a complex number with non-zero real and imaginary parts (thousandths).
StrComplex(re, im) ==
    <<"(">> \o StrPart(re) \o (IF im < 0 THEN <<>> ELSE <<"+">>) \o StrPart(im) \o <<"j", ")">>

\* np.round(x, 3) of x ten-thousandths, in thousandths: to the nearest, a tie
\* to the even one.
Round3(x) ==
    LET q == x \div 10
        r == x % 10
    IN  IF r < 5 THEN q
        ELSE IF r > 5 THEN q + 1
        ELSE IF q % 2 = 0 THEN q ELSE q + 1

\* The values _remove_null_imag and _remove_unnecessary_decimals return.
IntValue(n) == [type |-> "int", re |-> 1000 * n, im |-> 0]

Float32Value(k) == [type |-> "float32", re |-> k, im |-> 0]

ComplexValue(re, im) == [type |-> "complex", re |-> re, im |-> im]

\* Lines 58-62, on k thousandths.
remove_unnecessary_decimals(k) ==
    IF k % 1000 = 0 THEN IntValue(k \div 1000) ELSE Float32Value(k)

\* Lines 51-55.
remove_null_imag(v) ==
    IF Round3(v[2]) # 0 THEN ComplexValue(Round3(v[1]), Round3(v[2]))
    ELSE remove_unnecessary_decimals(Round3(v[1]))

\* str(x) of such a value.
Str(x) ==
    IF x.type = "int" THEN StrInt(x.re \div 1000)
    ELSE IF x.type = "float32" THEN StrFloat(x.re)
    ELSE IF x.re = 0 THEN StrPart(x.im) \o <<"j">>
    ELSE StrComplex(x.re, x.im)

\* str.startswith
StartsWith(str, prefix) ==
    Len(str) >= Len(prefix) /\ SubSeq(str, 1, Len(prefix)) = prefix

\* -x
Negated(x) == [type |-> x.type, re |-> 0 - x.re, im |-> 0 - x.im]

\* Lines 38-48.
with_sign(v) ==
    LET rounded == remove_null_imag(v)
    IN  IF rounded = IntValue(1) THEN <<"+", " ">>
        ELSE IF rounded.re = 0 THEN
            (IF rounded.im >= 0 THEN <<"+", " ">> ELSE <<"-", " ">>)
                \o Str(remove_unnecessary_decimals(Abs(rounded.im))) \o <<"j">>
        ELSE IF StartsWith(Str(rounded), <<"-">>) \/ StartsWith(Str(rounded), <<"(", "-">>)
            THEN <<"-", " ">> \o Str(Negated(rounded))
        ELSE <<"+", " ">> \o Str(rounded)

\* int(np.log2(n)) for n >= 1
RECURSIVE FloorLog2(_)
FloorLog2(n) == IF n <= 1 THEN 0 ELSE 1 + FloorLog2(n \div 2)

\* bin(num)[2:]
RECURSIVE Bin(_)
Bin(num) == IF num < 2 THEN <<DigitChar(num)>> ELSE Bin(num \div 2) \o <<DigitChar(num % 2)>>

\* np.binary_repr(num, width) for num >= 0
binary_repr(num, width) ==
    IF num = 0 THEN [k \in 1..(IF width = 0 THEN 1 ELSE width) |-> "0"]
    ELSE [k \in 1..(width - Len(Bin(num))) |-> "0"] \o Bin(num)

\* " ".join(parts)
RECURSIVE Join(_)
Join(parts) ==
    IF parts = <<>> THEN <<>>
    ELSE IF Len(parts) = 1 THEN parts[1]
    ELSE parts[1] \o <<" ">> \o Join(Tail(parts))

\* Lines 19-23: the terms of the amplitudes that do not round to zero.
RECURSIVE KetTerms(_, _, _)
KetTerms(data, i, width) ==
    IF i > Len(data) THEN <<>>
    ELSE LET v == data[i]
         IN  (IF Round3(v[1]) # 0 \/ Round3(v[2]) # 0
              THEN << with_sign(v) \o <<"|">> \o binary_repr(i - 1, width) \o <<">">> >>
              ELSE <<>>)
                 \o KetTerms(data, i + 1, width)

\* The slice of line 24 with a slip: nothing is cut.
WholeString(str) == str

\* Line 24: [2:]
FromThird(str) == SubSeq(str, 3, Len(str))

\* Lines 13-24: the string returned or the exception raised.
state_vector_ket_shape(x) ==
    IF Len(x.shape) # 1 THEN [out |-> None, err |-> "ValueError"]
    ELSE IF Len(x.data) = 0 THEN
        \* np.log2(0) is -inf, and int(-inf) raises OverflowError
        [out |-> None, err |-> "OverflowError"]
    ELSE LET nb == FloorLog2(Len(x.data))
         IN  IF Pow2(nb) # Len(x.data) THEN [out |-> None, err |-> "ValueError"]
             ELSE [out |-> Some(FromThird(Join(KetTerms(x.data, 1, nb)))), err |-> "none"]

\* The amplitudes of the state vectors tried, in ten-thousandths.
Amplitudes == {<<0, 0>>, <<10000, 0>>, <<0 - 7071, 0>>, <<0, 7071>>, <<5000, 0 - 5000>>, <<4, 0>>}

\* The real and imaginary parts of the numbers given to with_sign.
Parts == {0 - 20000, 0 - 10000, 0 - 5000, 0 - 4, 0, 5, 15, 7071, 10000, 30000}

\* The arrays given to state_vector_ket_shape: the vectors of up to MaxLen
\* amplitudes, a scalar and two matrices.
Arrays ==
    {[shape |-> <<Len(d)>>, data |-> d] :
        d \in UNION {[1..k -> Amplitudes] : k \in 0..MaxLen}}
    \cup {[shape |-> <<>>, data |-> <<>>],
          [shape |-> <<1, 2>>, data |-> <<>>],
          [shape |-> <<2, 2>>, data |-> <<>>]}

InitDisplay ==
    /\ RcIdle
    /\ CemIdle
    /\ RcgIdle
    /\ d_pc = "call"
    /\ \/ d_op = "state_vector_ket_shape" /\ sv \in {Some(a) : a \in Arrays} /\ val = None
       \/ d_op = "with_sign" /\ sv = None /\ val \in {Some(<<a, b>>) : a \in Parts, b \in Parts}
    /\ d_out = None
    /\ d_err = "none"

\* Lines 11-24.
KetShape ==
    /\ d_pc = "call"
    /\ d_op = "state_vector_ket_shape"
    /\ LET res == state_vector_ket_shape(sv[1])
       IN  /\ d_out' = res.out
           /\ d_err' = res.err
           /\ d_pc' = IF res.err = "none" THEN "returned" ELSE "raised"
    /\ UNCHANGED <<d_op, sv, val>>
    /\ UNCHANGED <<rcVars, cemVars, rcgVars>>

\* Lines 27-48.
WithSign ==
    /\ d_pc = "call"
    /\ d_op = "with_sign"
    /\ d_out' = Some(with_sign(val[1]))
    /\ d_pc' = "returned"
    /\ UNCHANGED <<d_op, sv, val, d_err>>
    /\ UNCHANGED <<rcVars, cemVars, rcgVars>>

NextDisplay == KetShape \/ WithSign

SpecDisplay == InitDisplay /\ [][NextDisplay]_vars


-----------------------------------------------------------------------------
(* Claims about display.py, checked under SpecDisplay.                     *)

KetDone == d_op = "state_vector_ket_shape" /\ d_pc # "call"

One == <<10000, 0>>

Zero == <<0, 0>>

\* The vector is a computational basis state: amplitude 1 at entry i (counted
\* from 1), 0 elsewhere, and its length is 2^n.
IsBasisState(x, i, n) ==
    /\ Len(x.shape) = 1
    /\ Len(x.data) = Pow2(n)
    /\ i \in DOMAIN x.data
    /\ x.data[i] = One
    /\ \A k \in DOMAIN x.data : k # i => x.data[k] = Zero

\* The n-bit binary representation of i, most significant bit first.
Bits(i, n) == [k \in 1..n |-> DigitChar((i \div Pow2(n - k)) % 2)]

\* How many amplitudes of the vector do not round to zero.
Rendered(data) ==
    Cardinality({k \in DOMAIN data : Round3(data[k][1]) # 0 \/ Round3(data[k][2]) # 0})

\* How many times a sign stands between two spaces in the string.
SpacedSigns(str) ==
    Cardinality({p \in 1..(Len(str) - 2) :
        str[p] = " " /\ str[p + 1] \in {"+", "-"} /\ str[p + 2] = " "})

\* C8 as written: a basis state of n qubits with amplitude 1 at index i is
\* rendered as the signed term "+ |b>", b the n-bit binary representation of
\* i; [1,0,0,0] gives "+ |00>".
C8_BasisStateKeepsSign ==
    KetDone =>
        \A n \in 1..MaxLen : \A i \in 1..Pow2(n) :
            IsBasisState(sv[1], i, n)
                => d_out = Some(<<"+", " ", "|">> \o Bits(i - 1, n) \o <<">">>)

\* C8 amended: a basis state of n >= 1 qubits with amplitude 1 at index i is
\* rendered as "|b>" with no sign, b the n-bit binary representation of i
\* ("|0>" for the one-entry vector); [1,0,0,0] gives "|00>".  In every string
\* returned the first rendered term has lost its sign and the space after it,
\* and every later term has kept its own.
C8_BasisStateWithoutSign ==
    KetDone =>
        /\ \A n \in 0..MaxLen : \A i \in 1..Pow2(n) :
            IsBasisState(sv[1], i, n)
                => d_out = Some(<<"|">> \o (IF n = 0 THEN <<"0">> ELSE Bits(i - 1, n)) \o <<">">>)
        /\ (d_pc = "returned" /\ Rendered(sv[1].data) >= 1)
            => /\ d_out[1][1] \notin {"+", "-", " "}
               /\ SpacedSigns(d_out[1]) = Rendered(sv[1].data) - 1

\* C8's case: the vector [1,0,0,0] has been rendered.
C8_Witness ==
    /\ KetDone
    /\ sv = Some([shape |-> <<4>>, data |-> <<One, Zero, Zero, Zero>>])
    /\ d_out = Some(<<"|", "0", "0", ">">>)

IsPowerOfTwo(n) == \E k \in 0..n : Pow2(k) = n

\* C9: state_vector_ket_shape raises ValueError for every input that is not
\* one-dimensional and for every one-dimensional input whose length is not a
\* power of two (0, 3, 5, ...), and raises nothing for a one-dimensional
\* input whose length is a power of two.
C9_ValueErrorIffMalformed ==
    KetDone =>
        IF Len(sv[1].shape) # 1 \/ ~IsPowerOfTwo(Len(sv[1].data))
        THEN d_pc = "raised" /\ d_err = "ValueError"
        ELSE d_pc = "returned" /\ d_err = "none"

\* C10: with_sign's result starts with "+ " or "- ", with "-" exactly when
\* the real part is negative (or it is zero and the imaginary part is
\* negative); parts that are whole numbers are written without a decimal
\* point and a zero imaginary part is omitted.  Stated for the numbers of at
\* most three decimals, which with_sign's rounding leaves as they are.
C10_SignedSimplestValue ==
    (d_op = "with_sign" /\ d_pc = "returned" /\ val[1][1] % 10 = 0 /\ val[1][2] % 10 = 0) =>
        LET re == val[1][1] \div 10
            im == val[1][2] \div 10
            out == d_out[1]
        IN  /\ SubSeq(out, 1, 2) =
                   (IF re < 0 \/ (re = 0 /\ im < 0) THEN <<"-", " ">> ELSE <<"+", " ">>)
            /\ im = 0 => "j" \notin Range(out)
            /\ (re % 1000 = 0 /\ im % 1000 = 0) => "." \notin Range(out)

=============================================================================
